---- MODULE Spec2Model ----
(***************************************************************************)
(* Model of scripts/create-dmg-background.py: the import guard, the main  *)
(* block and create_dmg_background(), one action per statement group.     *)
(* The environment (library and font availability, measured text widths,  *)
(* the file system) is chosen in Init; failures of the steps the script   *)
(* does not guard are injected nondeterministically in the actions.       *)
(***************************************************************************)
EXTENDS Integers, Sequences, FiniteSets, TLC

\* ---------------------------------------------------------------- bounds
MaxRuns == 2
Delta == 1

\* ------------------------------------------------------ program constants
width == 800
height == 450
background == "#f5f5f7"
output_path == "scripts/dmg-background.png"
text1_offset == 120
text2_offset == 35
shadow1_fill == "#cccccc"
primary1_fill == "#333333"
shadow2_fill == "#dddddd"
primary2_fill == "#666666"

\* Text widths textbbox can report: narrow text, and text about as wide as
\* the canvas (one pixel less, equal, and wider).
Widths == (0 .. Delta) \cup ((width - Delta) .. (width + Delta))

\* ------------------------------------------------------------------ state
VARIABLES
    env,          \* what this machine offers: pil, sys24, sys16, def1, def2, w1, w2
    dir,          \* the path 'scripts': "absent", "dir" or "file"
    file,         \* the file at output_path
    run,          \* number of the current invocation of the script
    pc,           \* position of the current invocation
    exitCode,     \* exit status of the current invocation (-1 while running)
    img,          \* the canvas
    font_large, font_small,
    text1_x, text1_y, text2_x, text2_y,
    log,          \* events of the current invocation, in order
    injected,     \* the environment failure injected into this invocation
    dirAtStart, fileAtStart,            \* the file system when this invocation began
    prevExit, prevInjected, prevDirAtStart  \* the same facts of the invocation before

vars == <<env, dir, file, run, pc, exitCode, img, font_large, font_small,
          text1_x, text1_y, text2_x, text2_y, log, injected,
          dirAtStart, fileAtStart, prevExit, prevInjected, prevDirAtStart>>

locals == <<img, font_large, font_small, text1_x, text1_y, text2_x, text2_y>>
history == <<dirAtStart, fileAtStart, prevExit, prevInjected, prevDirAtStart>>

NoImg == [w |-> 0, h |-> 0, bg |-> "", ops |-> <<>>]
NoFile == [exists |-> FALSE, valid |-> FALSE, format |-> "", w |-> 0, h |-> 0,
           bg |-> "", ops |-> <<>>]
\* a file some earlier tool left at output_path
StaleFile == [exists |-> TRUE, valid |-> TRUE, format |-> "PNG", w |-> 640,
              h |-> 480, bg |-> "#ffffff", ops |-> <<>>]
\* what a write that failed half way leaves behind
TruncatedFile == [exists |-> TRUE, valid |-> FALSE, format |-> "", w |-> 0,
                  h |-> 0, bg |-> "", ops |-> <<>>]

Ev(op, ok) == [op |-> op, ok |-> ok]

\* PNG encoding of the canvas, as img.save(output_path, 'PNG') writes it
Encode(i) == [exists |-> TRUE, valid |-> TRUE, format |-> "PNG", w |-> i.w,
              h |-> i.h, bg |-> i.bg, ops |-> i.ops]

\* width - text_width, floor-divided by two (Python //)
CenterX_offByPrecedence(w) == width - (w \div 2)
CenterX(w) == (width - w) \div 2

\* Python truthiness of a font handle in "if font_large and font_small"
Truthy(f) == f # "none"

Init ==
    /\ env \in [pil : BOOLEAN, sys24 : BOOLEAN, sys16 : BOOLEAN,
                def1 : BOOLEAN, def2 : BOOLEAN, w1 : Widths, w2 : Widths]
    /\ \/ dir \in {"absent", "file"} /\ file = NoFile
       \/ dir = "dir" /\ file \in {NoFile, StaleFile}
    /\ run = 1
    /\ pc = "import"
    /\ exitCode = -1
    /\ img = NoImg
    /\ font_large = "unbound" /\ font_small = "unbound"
    /\ text1_x = 0 /\ text1_y = 0 /\ text2_x = 0 /\ text2_y = 0
    /\ log = <<>>
    /\ injected = "none"
    /\ dirAtStart = dir
    /\ fileAtStart = file
    /\ prevExit = -1
    /\ prevInjected = "none"
    /\ prevDirAtStart = "none"

\* An exception nobody catches: traceback, interpreter exits with status 1.
Uncaught(op) ==
    /\ log' = log \o <<Ev(op, FALSE), Ev("traceback", TRUE)>>
    /\ exitCode' = 1
    /\ pc' = "done"

\* ---------------------------------------------------------- import guard
ImportGuard_noExit ==
    /\ pc = "import"
    /\ IF env.pil
         THEN UNCHANGED <<log, injected>>
         ELSE /\ log' = Append(log, Ev("print_pil_missing", TRUE))
              /\ injected' = "import"
    /\ pc' = "makedirs"
    /\ UNCHANGED <<env, dir, file, run, exitCode, locals, history>>

ImportGuard ==
    /\ pc = "import"
    /\ IF env.pil
         THEN /\ pc' = "makedirs"
              /\ UNCHANGED <<log, exitCode, injected>>
         ELSE /\ log' = Append(log, Ev("print_pil_missing", TRUE))
              /\ exitCode' = 1
              /\ injected' = "import"
              /\ pc' = "done"
    /\ UNCHANGED <<env, dir, file, run, locals, history>>

\* ------------------------------------------------------------ main block
MakeDirs_noExistOk ==
    /\ pc = "makedirs"
    /\ \/ /\ dir = "absent"
          /\ dir' = "dir"
          /\ log' = Append(log, Ev("makedirs", TRUE))
          /\ pc' = "new_image"
          /\ UNCHANGED <<exitCode, injected>>
       \/ /\ dir \in {"dir", "file"}
          /\ Uncaught("makedirs")
          /\ UNCHANGED <<dir, injected>>
    /\ UNCHANGED <<env, file, run, locals, history>>

MakeDirs ==
    /\ pc = "makedirs"
    /\ \/ /\ dir = "dir"                       \* exist_ok=True
          /\ log' = Append(log, Ev("makedirs", TRUE))
          /\ pc' = "new_image"
          /\ UNCHANGED <<dir, exitCode, injected>>
       \/ /\ dir = "absent"
          /\ dir' = "dir"
          /\ log' = Append(log, Ev("makedirs", TRUE))
          /\ pc' = "new_image"
          /\ UNCHANGED <<exitCode, injected>>
       \/ /\ dir = "absent"                    \* e.g. PermissionError
          /\ Uncaught("makedirs")
          /\ injected' = "makedirs"
          /\ UNCHANGED dir
       \/ /\ dir = "file"                      \* FileExistsError
          /\ Uncaught("makedirs")
          /\ injected' = "makedirs"
          /\ UNCHANGED dir
    /\ UNCHANGED <<env, file, run, locals, history>>

\* ------------------------------------------------- create_dmg_background
NewImage_swapped ==
    /\ pc = "new_image"
    /\ img' = [w |-> height, h |-> width, bg |-> background, ops |-> <<>>]
    /\ log' = Append(log, Ev("new_image", TRUE))
    /\ pc' = "load_sys_large"
    /\ UNCHANGED <<env, dir, file, run, exitCode, injected, font_large,
                   font_small, text1_x, text1_y, text2_x, text2_y, history>>

NewImage ==
    /\ pc = "new_image"
    /\ img' = [w |-> width, h |-> height, bg |-> background, ops |-> <<>>]
    /\ log' = Append(log, Ev("new_image", TRUE))
    /\ pc' = "load_sys_large"
    /\ UNCHANGED <<env, dir, file, run, exitCode, injected, font_large,
                   font_small, text1_x, text1_y, text2_x, text2_y, history>>

LoadSystemLarge_skipDefault ==
    /\ pc = "load_sys_large"
    /\ log' = Append(log, Ev("truetype_large", env.sys24))
    /\ IF env.sys24
         THEN font_large' = "sys24" /\ pc' = "load_sys_small"
         ELSE UNCHANGED font_large /\ pc' = "set_none"
    /\ UNCHANGED <<env, dir, file, run, exitCode, injected, img, font_small,
                   text1_x, text1_y, text2_x, text2_y, history>>

LoadSystemLarge ==
    /\ pc = "load_sys_large"
    /\ log' = Append(log, Ev("truetype_large", env.sys24))
    /\ IF env.sys24
         THEN font_large' = "sys24" /\ pc' = "load_sys_small"
         ELSE UNCHANGED font_large /\ pc' = "load_def_large"
    /\ UNCHANGED <<env, dir, file, run, exitCode, injected, img, font_small,
                   text1_x, text1_y, text2_x, text2_y, history>>

LoadSystemSmall_keepLarge ==
    /\ pc = "load_sys_small"
    /\ log' = Append(log, Ev("truetype_small", env.sys16))
    /\ IF env.sys16
         THEN font_small' = "sys16" /\ pc' = "check_fonts"
         ELSE UNCHANGED font_small /\ pc' = "load_def_small"
    /\ UNCHANGED <<env, dir, file, run, exitCode, injected, img, font_large,
                   text1_x, text1_y, text2_x, text2_y, history>>

LoadSystemSmall ==
    /\ pc = "load_sys_small"
    /\ log' = Append(log, Ev("truetype_small", env.sys16))
    /\ IF env.sys16
         THEN font_small' = "sys16" /\ pc' = "check_fonts"
         ELSE UNCHANGED font_small /\ pc' = "load_def_large"
    /\ UNCHANGED <<env, dir, file, run, exitCode, injected, img, font_large,
                   text1_x, text1_y, text2_x, text2_y, history>>

LoadDefaultLarge ==
    /\ pc = "load_def_large"
    /\ log' = Append(log, Ev("load_default_large", env.def1))
    /\ IF env.def1
         THEN font_large' = "default" /\ pc' = "load_def_small"
         ELSE UNCHANGED font_large /\ pc' = "set_none"
    /\ UNCHANGED <<env, dir, file, run, exitCode, injected, img, font_small,
                   text1_x, text1_y, text2_x, text2_y, history>>

LoadDefaultSmall_propagate ==
    /\ pc = "load_def_small"
    /\ IF env.def2
         THEN /\ log' = Append(log, Ev("load_default_small", TRUE))
              /\ font_small' = "default"
              /\ pc' = "check_fonts"
              /\ UNCHANGED exitCode
         ELSE /\ Uncaught("load_default_small")
              /\ UNCHANGED font_small
    /\ UNCHANGED <<env, dir, file, run, injected, img, font_large,
                   text1_x, text1_y, text2_x, text2_y, history>>

LoadDefaultSmall ==
    /\ pc = "load_def_small"
    /\ log' = Append(log, Ev("load_default_small", env.def2))
    /\ IF env.def2
         THEN font_small' = "default" /\ pc' = "check_fonts"
         ELSE UNCHANGED font_small /\ pc' = "set_none"
    /\ UNCHANGED <<env, dir, file, run, exitCode, injected, img, font_large,
                   text1_x, text1_y, text2_x, text2_y, history>>

SetNone ==
    /\ pc = "set_none"
    /\ font_large' = "none"
    /\ font_small' = "none"
    /\ pc' = "check_fonts"
    /\ UNCHANGED <<env, dir, file, run, exitCode, injected, img, log,
                   text1_x, text1_y, text2_x, text2_y, history>>

CheckFonts_alwaysDraw ==
    /\ pc = "check_fonts"
    /\ pc' = "measure1"
    /\ UNCHANGED <<env, dir, file, run, exitCode, injected, log, locals, history>>

CheckFonts ==
    /\ pc = "check_fonts"
    /\ pc' = IF Truthy(font_large) /\ Truthy(font_small) THEN "measure1" ELSE "save"
    /\ UNCHANGED <<env, dir, file, run, exitCode, injected, log, locals, history>>

\* shared shape of textbbox + centering for one line
MeasureText(here, next, w, op) ==
    /\ pc = here
    /\ \/ /\ log' = Append(log, Ev(op, TRUE))
          /\ pc' = next
          /\ UNCHANGED <<exitCode, injected>>
       \/ /\ Uncaught(op)                      \* textbbox raises
          /\ injected' = "measure"

DrawText(here, next, op, line, x, y, fill, font) ==
    /\ pc = here
    /\ \/ /\ img' = [img EXCEPT !.ops = Append(@, [line |-> line, x |-> x,
                                         y |-> y, fill |-> fill, font |-> font])]
          /\ log' = Append(log, Ev(op, TRUE))
          /\ pc' = next
          /\ UNCHANGED <<exitCode, injected>>
       \/ /\ Uncaught(op)                      \* draw.text raises
          /\ injected' = "draw"
          /\ UNCHANGED img

Measure1 ==
    /\ MeasureText("measure1", "shadow1", env.w1, "textbbox1")
    /\ text1_x' = IF pc' = "shadow1" THEN CenterX(env.w1) ELSE text1_x
    /\ text1_y' = IF pc' = "shadow1" THEN height - text1_offset ELSE text1_y
    /\ UNCHANGED <<env, dir, file, run, img, font_large, font_small,
                   text2_x, text2_y, history>>

DrawShadow1_noOffset ==
    /\ DrawText("shadow1", "primary1", "shadow1", 1, text1_x, text1_y,
                shadow1_fill, font_large)
    /\ UNCHANGED <<env, dir, file, run, font_large, font_small,
                   text1_x, text1_y, text2_x, text2_y, history>>

DrawShadow1 ==
    /\ DrawText("shadow1", "primary1", "shadow1", 1, text1_x + 1, text1_y + 1,
                shadow1_fill, font_large)
    /\ UNCHANGED <<env, dir, file, run, font_large, font_small,
                   text1_x, text1_y, text2_x, text2_y, history>>

DrawPrimary1 ==
    /\ DrawText("primary1", "measure2", "primary1", 1, text1_x, text1_y,
                primary1_fill, font_large)
    /\ UNCHANGED <<env, dir, file, run, font_large, font_small,
                   text1_x, text1_y, text2_x, text2_y, history>>

Measure2 ==
    /\ MeasureText("measure2", "shadow2", env.w2, "textbbox2")
    /\ text2_x' = IF pc' = "shadow2" THEN CenterX(env.w2) ELSE text2_x
    /\ text2_y' = IF pc' = "shadow2" THEN text1_y + text2_offset ELSE text2_y
    /\ UNCHANGED <<env, dir, file, run, img, font_large, font_small,
                   text1_x, text1_y, history>>

DrawShadow2 ==
    /\ DrawText("shadow2", "primary2", "shadow2", 2, text2_x + 1, text2_y + 1,
                shadow2_fill, font_small)
    /\ UNCHANGED <<env, dir, file, run, font_large, font_small,
                   text1_x, text1_y, text2_x, text2_y, history>>

DrawPrimary2 ==
    /\ DrawText("primary2", "save", "primary2", 2, text2_x, text2_y,
                primary2_fill, font_small)
    /\ UNCHANGED <<env, dir, file, run, font_large, font_small,
                   text1_x, text1_y, text2_x, text2_y, history>>

Save_exclusive ==
    /\ pc = "save"
    /\ IF file.exists
         THEN /\ Uncaught("save")
              /\ UNCHANGED file
         ELSE /\ file' = Encode(img)
              /\ log' = Append(log, Ev("save", TRUE))
              /\ pc' = "print_created"
              /\ UNCHANGED exitCode
    /\ UNCHANGED <<env, dir, run, injected, locals, history>>

Save ==
    /\ pc = "save"
    /\ \/ /\ file' = Encode(img)               \* creates or overwrites
          /\ log' = Append(log, Ev("save", TRUE))
          /\ pc' = "print_created"
          /\ UNCHANGED <<exitCode, injected>>
       \/ /\ Uncaught("save")                  \* the write fails
          /\ injected' = "save"
          /\ file' \in {file, TruncatedFile}
    /\ UNCHANGED <<env, dir, run, locals, history>>

PrintCreated ==
    /\ pc = "print_created"
    /\ log' = log \o <<Ev("print_path", TRUE), Ev("print_size", TRUE)>>
    /\ pc' = "return"
    /\ UNCHANGED <<env, dir, file, run, exitCode, injected, locals, history>>

\* return output_path; the main block prints its two closing lines and the
\* interpreter exits normally
PrintReady ==
    /\ pc = "return"
    /\ log' = Append(log, Ev("print_ready", TRUE))
    /\ exitCode' = 0
    /\ pc' = "done"
    /\ UNCHANGED <<env, dir, file, run, injected, locals, history>>

\* the script is invoked again on the same machine
NextRun ==
    /\ pc = "done"
    /\ run < MaxRuns
    /\ run' = run + 1
    /\ pc' = "import"
    /\ exitCode' = -1
    /\ img' = NoImg
    /\ font_large' = "unbound" /\ font_small' = "unbound"
    /\ text1_x' = 0 /\ text1_y' = 0 /\ text2_x' = 0 /\ text2_y' = 0
    /\ log' = <<>>
    /\ injected' = "none"
    /\ dirAtStart' = dir
    /\ fileAtStart' = file
    /\ prevExit' = exitCode
    /\ prevInjected' = injected
    /\ prevDirAtStart' = dirAtStart
    /\ UNCHANGED <<env, dir, file>>

Next ==
    \/ ImportGuard
    \/ MakeDirs
    \/ NewImage
    \/ LoadSystemLarge
    \/ LoadSystemSmall
    \/ LoadDefaultLarge
    \/ LoadDefaultSmall
    \/ SetNone
    \/ CheckFonts
    \/ Measure1
    \/ DrawShadow1
    \/ DrawPrimary1
    \/ Measure2
    \/ DrawShadow2
    \/ DrawPrimary2
    \/ Save
    \/ PrintCreated
    \/ PrintReady
    \/ NextRun

Spec == Init /\ [][Next]_vars

\* ------------------------------------------------------------- vocabulary
Has(op, ok) == \E i \in 1..Len(log) : log[i] = Ev(op, ok)
Tried(op) == Has(op, TRUE) \/ Has(op, FALSE)
Count(op) == Cardinality({i \in 1..Len(log) : log[i].op = op})
Before(e, f) == \A j \in 1..Len(log) : log[j] = f => \E i \in 1..(j-1) : log[i] = e
TextOps == {"textbbox1", "shadow1", "primary1", "textbbox2", "shadow2", "primary2"}
DrawOps == {"shadow1", "primary1", "shadow2", "primary2"}
FontOps == {"truetype_large", "truetype_small", "load_default_large", "load_default_small"}
SystemFails == ~env.sys24 \/ ~env.sys16
DefaultFails == ~env.def1 \/ ~env.def2
Tier(f) == IF f \in {"sys24", "sys16"} THEN "system" ELSE f
Lines(f) == {f.ops[i].line : i \in 1..Len(f.ops)}
Abs(n) == IF n < 0 THEN -n ELSE n

TypeOK ==
    /\ dir \in {"absent", "dir", "file"}
    /\ run \in 1..MaxRuns
    /\ exitCode \in {-1, 0, 1}
    /\ font_large \in {"unbound", "none", "sys24", "default"}
    /\ font_small \in {"unbound", "none", "sys16", "default"}
    /\ injected \in {"none", "import", "makedirs", "measure", "draw", "save"}

\* Reference rendering: what the finished file holds on a machine with the
\* environment env, written out from the font tier that resolves.
ResolvedTier == IF ~SystemFails THEN "system" ELSE IF ~DefaultFails THEN "default" ELSE "none"
ExpectedOps ==
    IF ResolvedTier = "none" THEN <<>>
    ELSE LET fl == IF ResolvedTier = "system" THEN "sys24" ELSE "default"
             fs == IF ResolvedTier = "system" THEN "sys16" ELSE "default"
             x1 == (800 - env.w1) \div 2
             x2 == (800 - env.w2) \div 2
         IN << [line |-> 1, x |-> x1 + 1, y |-> 331, fill |-> "#cccccc", font |-> fl],
               [line |-> 1, x |-> x1,     y |-> 330, fill |-> "#333333", font |-> fl],
               [line |-> 2, x |-> x2 + 1, y |-> 366, fill |-> "#dddddd", font |-> fs],
               [line |-> 2, x |-> x2,     y |-> 365, fill |-> "#666666", font |-> fs] >>
ExpectedFile == [exists |-> TRUE, valid |-> TRUE, format |-> "PNG", w |-> 800,
                 h |-> 450, bg |-> "#f5f5f7", ops |-> ExpectedOps]
BlankFile == [exists |-> TRUE, valid |-> TRUE, format |-> "PNG", w |-> 800,
              h |-> 450, bg |-> "#f5f5f7", ops |-> <<>>]
\* every attempt of b in the log comes after a success of a
Precedes(a, b) ==
    \A j \in 1..Len(log) : log[j].op = b => \E i \in 1..(j-1) : log[i] = Ev(a, TRUE)
FontsResolved ==
    /\ pc \notin {"import", "makedirs", "new_image", "load_sys_large",
                  "load_sys_small", "load_def_large", "load_def_small", "set_none"}
    /\ pc = "done" => (Tried("save") \/ Tried("textbbox1"))

\* ------------------------------------------------------------------ claims

\* C1: once the canvas is allocated it is 800 wide and 450 high at every
\* later step, and a run that has written the output file has written an
\* image of width exactly 800 and height exactly 450, whatever font tier
\* was resolved.
C1_OutputDimensions ==
    /\ Has("new_image", TRUE) => (img.w = 800 /\ img.h = 450)
    /\ Has("save", TRUE) => (file.valid /\ file.w = 800 /\ file.h = 450)
C1_Witness ==
    /\ Has("save", TRUE) /\ fileAtStart = StaleFile
    /\ font_large = "none" /\ file.w = 800 /\ file.h = 450

C3_FatalImport ==
    ~env.pil =>
        /\ pc \in {"import", "done"}
        /\ pc = "done" => (exitCode = 1 /\ log = <<Ev("print_pil_missing", TRUE)>>)
        /\ ~Tried("makedirs") /\ ~Tried("new_image") /\ ~Tried("save")
        /\ \A op \in FontOps : ~Tried(op)
        /\ dir = dirAtStart /\ file = fileAtStart
        /\ img = NoImg /\ font_large = "unbound" /\ font_small = "unbound"
C3_Witness ==
    /\ ~env.pil /\ pc = "done" /\ exitCode = 1 /\ run = 2
    /\ dir = "absent" /\ file = NoFile

\* C4 (as claimed): with the imaging library present, every finished run
\* has exit code 0, whichever other step failed.
C4_OnlyFatalIsImport ==
    (pc = "done" /\ env.pil) => exitCode = 0
\* C4 (amended): a finished run has exit code 0 exactly when no step other
\* than a font load failed in it; font-load failures never abort, while a
\* failed import, directory creation, text measurement, text drawing or
\* file write ends the run with exit code 1.
C4_FontFailuresOnlyAreGraceful ==
    pc = "done" =>
        /\ injected = "none" => exitCode = 0
        /\ injected # "none" => exitCode = 1
C4_Witness ==
    /\ run = 2 /\ prevInjected = "save" /\ prevExit = 1
    /\ pc = "done" /\ injected = "none" /\ exitCode = 0
    /\ Has("truetype_large", FALSE) /\ Has("load_default_small", FALSE)

\* C5: the font tiers are tried in order and never retried: every font
\* load is attempted at most once per run, the default font only after a
\* system-font load has failed, the no-font outcome only after a load of
\* each tier has failed, a fully loaded system font ends the resolution,
\* and a failed font load is never followed by an uncaught exception.
C5_OrderedFallback ==
    /\ \A op \in FontOps : Count(op) <= 1
    /\ Precedes("truetype_large", "truetype_small")
    /\ \A j \in 1..Len(log) :
         log[j].op \in {"load_default_large", "load_default_small"} =>
             \E i \in 1..(j-1) : log[i] \in {Ev("truetype_large", FALSE),
                                              Ev("truetype_small", FALSE)}
    /\ Precedes("load_default_large", "load_default_small")
    /\ (font_large = "none" \/ font_small = "none") =>
         /\ Has("truetype_large", FALSE) \/ Has("truetype_small", FALSE)
         /\ Has("load_default_large", FALSE) \/ Has("load_default_small", FALSE)
    /\ (Has("truetype_large", TRUE) /\ Has("truetype_small", TRUE)) =>
         /\ ~Tried("load_default_large") /\ ~Tried("load_default_small")
         /\ font_large = "sys24" /\ font_small = "sys16"
    /\ \A i \in 1..Len(log) :
         (log[i].op \in FontOps /\ ~log[i].ok) =>
             /\ i < Len(log) => log[i+1].op # "traceback"
             /\ i = Len(log) => pc # "done"
C5_Witness ==
    /\ pc = "done" /\ exitCode = 0 /\ font_large = "none"
    /\ Has("truetype_large", TRUE) /\ Has("truetype_small", FALSE)
    /\ Has("load_default_large", TRUE) /\ Has("load_default_small", FALSE)

\* C6: when two successive runs on the same machine both go through with
\* no failing step, both end with exit code 0, the second writes the file
\* at the same path, and the file after the second run is the PNG the
\* first run left: same dimensions, format and content.
C6_IdempotentOverwrite ==
    (run >= 2 /\ pc = "done" /\ injected = "none" /\ prevInjected = "none") =>
        /\ prevExit = 0 /\ exitCode = 0
        /\ Has("save", TRUE)
        /\ file = fileAtStart
        /\ file.valid /\ file.format = "PNG" /\ file.w = 800 /\ file.h = 450
C6_Witness ==
    /\ run = 2 /\ pc = "done" /\ exitCode = 0 /\ prevExit = 0
    /\ Has("save", TRUE) /\ file = fileAtStart /\ Len(file.ops) = 4

\* C7: a run started with the directory present and a run started with
\* it absent, with no failing step, both end with exit code 0 in the same
\* state: directory present and the file the environment determines; and
\* a directory that already exists never makes directory creation fail.
C7_DirectoryIdempotence ==
    /\ (dirAtStart \in {"absent", "dir"} /\ pc = "done" /\ injected = "none") =>
           (exitCode = 0 /\ dir = "dir" /\ file = ExpectedFile)
    /\ dirAtStart = "dir" => ~Has("makedirs", FALSE)
C7_Witness ==
    /\ run = 2 /\ prevDirAtStart = "absent" /\ prevExit = 0 /\ dirAtStart = "dir"
    /\ pc = "done" /\ exitCode = 0 /\ file = ExpectedFile /\ file = fileAtStart

\* C8: for every measured width w the start position x of a line leaves a
\* left margin x and a right margin 800 - w - x that differ by at most 1,
\* also for odd w and for w above 800.
C8_Centering ==
    /\ Has("textbbox1", TRUE) =>
           Abs((800 - env.w1 - text1_x) - text1_x) <= 1
    /\ Has("textbbox2", TRUE) =>
           Abs((800 - env.w2 - text2_x) - text2_x) <= 1
C8_Witness ==
    /\ Has("textbbox2", TRUE) /\ env.w1 = 801 /\ text1_x < 0 /\ env.w2 = 1

\* C9: in a run, the directory is created before the canvas is allocated
\* and before the file is written; each line's shadow (at x+1, y+1) is
\* drawn before its primary text (at x, y) and line 1 is finished before
\* line 2 is begun; the file is written at most once, exactly once in a
\* run that ends normally, and after every drawing pass; the output path
\* is printed only after the file has been written.
C9_EventOrder ==
    /\ Precedes("makedirs", "new_image") /\ Precedes("makedirs", "save")
    /\ Precedes("shadow1", "primary1") /\ Precedes("primary1", "textbbox2")
    /\ Precedes("primary1", "shadow2") /\ Precedes("shadow2", "primary2")
    /\ Len(img.ops) >= 1 => (img.ops[1].line = 1 /\ img.ops[1].x = text1_x + 1
                             /\ img.ops[1].y = text1_y + 1)
    /\ Len(img.ops) >= 2 => (img.ops[2].line = 1 /\ img.ops[2].x = text1_x
                             /\ img.ops[2].y = text1_y)
    /\ Len(img.ops) >= 3 => (img.ops[3].line = 2 /\ img.ops[3].x = text2_x + 1
                             /\ img.ops[3].y = text2_y + 1)
    /\ Len(img.ops) >= 4 => (img.ops[4].line = 2 /\ img.ops[4].x = text2_x
                             /\ img.ops[4].y = text2_y)
    /\ Count("save") <= 1
    /\ (pc = "done" /\ exitCode = 0) => Has("save", TRUE)
    /\ \A i, j \in 1..Len(log) :
         (log[i].op = "save" /\ log[j].op \in DrawOps) => j < i
    /\ (Tried("save") /\ Truthy(font_large) /\ Truthy(font_small)) =>
         \A d \in DrawOps : Has(d, TRUE)
    /\ Precedes("save", "print_path")
C9_Witness ==
    /\ pc = "done" /\ exitCode = 0 /\ Len(file.ops) = 4
    /\ Has("print_path", TRUE) /\ dirAtStart = "absent"

\* C10: once the fonts are resolved, the large and the small handle come
\* from the same tier, also when the system font loads at size 24 and
\* fails at size 16; every file a run has written holds both text lines or
\* neither.
C10_SameTier ==
    /\ FontsResolved =>
         /\ Tier(font_large) = Tier(font_small)
         /\ Tier(font_large) \in {"system", "default", "none"}
         /\ (env.sys24 /\ ~env.sys16) => Tier(font_large) # "system"
    /\ Has("save", TRUE) => Lines(file) \in {{}, {1, 2}}
C10_Witness ==
    /\ Has("save", TRUE) /\ env.sys24 /\ ~env.sys16
    /\ font_large = "default" /\ font_small = "default" /\ Lines(file) = {1, 2}
====
